---- MODULE Spec2Model ----
(***************************************************************************)
(* Model of handle_create_pdf.py: PdfCreator.handle_new_transactions and   *)
(* the methods it drives.                                                   *)
(*                                                                         *)
(* The state is what the program shares with the outside world (the Aeon   *)
(* requests and their status, the marker directory IN_PROCESSING_FILE_DIR, *)
(* the OCR bucket, the transaction directories under ROOT_DIR and the PDFs *)
(* written there) plus, per running process, the locals of                 *)
(* handle_new_transactions and create_pdf and the position in the code.    *)
(*                                                                         *)
(* Every call that leaves the process (Aeon, Textract, S3, the PDF writer, *)
(* the filesystem) either returns or raises: each is a step that chooses   *)
(* its outcome.  The collaborators the file does not define (PDFWriter,    *)
(* AeonClient.post, the argument-less AeonClient()) are modelled the same  *)
(* way, so the behaviours in which they always raise are included.         *)
(***************************************************************************)
EXTENDS Integers, Sequences, FiniteSets, TLC

\* ------------------------------------------------------------------ bounds

MaxTransactions == 2    \* transaction numbers known to Aeon
MaxRuns == 2            \* invocations of the script by one scheduler
MaxGuardCalls == 4      \* calls in a direct exercise of the guard methods

TransactionNumbers == 1..MaxTransactions
Procs == {1, 2}

\* ------------------------------------------------------- names and paths

\* File names are strings, modelled as tuples of character codes so that
\* sorted() and glob() work on them as they do in Python.
Suffix == <<46, 116, 105, 102, 102>>                 \* ".tiff"
NameA == <<97>> \o Suffix                             \* "a.tiff"
NameA1 == <<97, 45, 49>> \o Suffix                    \* "a-1.tiff"
NameAB == <<97, 98>> \o Suffix                        \* "ab.tiff"
NameB == <<98>> \o Suffix                             \* "b.tiff"
NamePdf == <<97, 46, 112, 100, 102>>                  \* "a.pdf"
Names == {NameA, NameA1, NameAB, NameB, NamePdf}

\* str.__lt__: lexicographic order on code points.
RECURSIVE StrLess(_, _)
StrLess(a, b) ==
    IF b = <<>> THEN FALSE
    ELSE IF a = <<>> THEN TRUE
    ELSE IF Head(a) # Head(b) THEN Head(a) < Head(b)
    ELSE StrLess(Tail(a), Tail(b))

\* fnmatch of the pattern '*.tiff' (case-sensitive).
MatchesTiff(name) ==
    /\ Len(name) >= Len(Suffix)
    /\ SubSeq(name, Len(name) - Len(Suffix) + 1, Len(name)) = Suffix

\* A directory of a transaction: whether it is a directory, and its entries.
NoDir == [is_dir |-> FALSE, files |-> {}]
Dir(files) == [is_dir |-> TRUE, files |-> files]

\* Path.glob('*.tiff') on a directory: the matching entries, as paths; nothing
\* when the directory does not exist.
glob(root, dirname) ==
    IF root[dirname].is_dir
    THEN {[dir |-> dirname, name |-> n] : n \in {m \in root[dirname].files : MatchesTiff(m)}}
    ELSE {}

\* Path.__lt__ for two paths under the same root: by parts.
PathLess(x, y) ==
    IF x.dir # y.dir THEN x.dir = "master" /\ y.dir = "master_edited"
    ELSE StrLess(x.name, y.name)

\* sorted(list(file_list))
RECURSIVE sortedDescending(_)
RECURSIVE sorted(_)
sortedDescending(S) ==
    IF S = {} THEN <<>>
    ELSE LET m == CHOOSE x \in S : \A y \in S \ {x} : PathLess(y, x)
         IN  <<m>> \o sortedDescending(S \ {m})
sorted(S) ==
    IF S = {} THEN <<>>
    ELSE LET m == CHOOSE x \in S : \A y \in S \ {x} : PathLess(x, y)
         IN  <<m>> \o sorted(S \ {m})

\* collect_tiff_filepaths(root_dir)
collect_both_dirs(root) == sorted(glob(root, "master_edited") \cup glob(root, "master"))
collect_with_fallback(root) ==
    LET file_list == IF glob(root, "master_edited") # {}
                     THEN glob(root, "master_edited")
                     ELSE glob(root, "master")
    IN  sorted(file_list)
collect_tiff_filepaths(root) ==
    LET file_list == IF root["master_edited"].is_dir
                     THEN glob(root, "master_edited")
                     ELSE glob(root, "master")
    IN  sorted(file_list)

\* Textractor.detect_document_text(file_source=page_path): the text of a page.
detect_document_text(page_path) == [text_of |-> page_path]

\* ------------------------------------------------------------ the guard

\* Path.touch(mode, exist_ok): creates the file when absent; when present it
\* only bumps the modification time, unless exist_ok is false.
touch(files, name, exist_ok) ==
    IF name \in files
    THEN [files |-> files, exc |-> IF exist_ok THEN "none" ELSE "FileExistsError"]
    ELSE [files |-> files \cup {name}, exc |-> "none"]

\* touch() is called without arguments: exist_ok keeps pathlib's default.
TouchExistOk == TRUE

\* set_transaction_processing on the marker directory.
SetTransactionProcessing(files, transaction) ==
    LET r == touch(files, transaction, TouchExistOk)
    IN  [files |-> r.files,
         exc |-> IF r.exc = "FileExistsError" THEN "AlreadyProcessingError" ELSE r.exc]

\* set_transaction_finished on the marker directory: Path.unlink().
SetTransactionFinished(files, transaction) ==
    IF transaction \in files
    THEN [files |-> files \ {transaction}, exc |-> "none"]
    ELSE [files |-> files, exc |-> "FileNotFoundError"]

\* ------------------------------------------------------- Aeon's records

SourceStatus == "SOURCE_TRANSACTION_STATUS"
DestinationStatus == "DESTINATION_TRANSACTION_STATUS"

\* The keys under which Aeon may present a record's fields.
Keys == {"TransactionNumber", "transactionnumber", "Username"}

\* str.lower() on those keys.
lower(k) ==
    CASE k = "TransactionNumber" -> "transactionnumber"
      [] k = "transactionnumber" -> "transactionnumber"
      [] k = "Username" -> "username"

\* {k.lower(): v for k, v in transaction.items()}
lowercased(transaction) ==
    [k \in {lower(j) : j \in DOMAIN transaction} |->
        transaction[CHOOSE j \in DOMAIN transaction : lower(j) = k]]

\* ---------------------------------------------------------------- state

VARIABLES
    procs,                    \* the processes running the script
    runs,                     \* how many times each may be invoked
    requests,                 \* Aeon's records, in the order Aeon returns them
    status,                   \* Aeon: photoduplication status per transaction
    root_dir,                 \* ROOT_DIR/<transaction>: its image directories
    markers,                  \* the files in IN_PROCESSING_FILE_DIR
    bucket,                   \* OCR_BUCKET: object key -> uploaded text
    pdfs,                     \* service_edited/<transaction>.pdf as written
    pc,                       \* where each process is in the code
    run,                      \* the invocation each process is in
    transactions_to_process,  \* handle_new_transactions: the fetched list
    idx,                      \* position of the for loop in that list
    transaction_number,       \* handle_new_transactions: the current number
    source_files,             \* create_pdf: the collected pages
    page,                     \* create_pdf: position of its for loop
    page_text,                \* create_pdf: the text of the current page
    writer,                   \* create_pdf: the pairs appended to the PDFWriter
    calls,                    \* history: the calls made in this invocation
    outcome,                  \* history: how each record of this invocation ended
    abandoned,                \* history: transactions left guarded by an earlier invocation
    guard_calls               \* history of a direct exercise of the guard methods

shared == <<requests, status, root_dir, markers, bucket, pdfs>>
locals == <<transactions_to_process, idx, transaction_number, source_files, page,
            page_text, writer>>
vars == <<procs, runs, shared, pc, run, locals, calls, outcome, abandoned, guard_calls>>

NoText == [text_of |-> [dir |-> "", name |-> <<>>]]

\* The image directories of each transaction: the first has edited images
\* beside its masters, the second has no image at all, the third only masters.
Layout(t) ==
    CASE t % 3 = 1 -> [master_edited |-> Dir({NameB, NameA, NameA1, NamePdf}),
                       master |-> Dir({NameAB, NameA})]
      [] t % 3 = 2 -> [master_edited |-> NoDir, master |-> Dir({NamePdf})]
      [] t % 3 = 0 -> [master_edited |-> NoDir, master |-> Dir({NameAB})]

\* Every directory content over Names.
Roots ==
    [master_edited : {NoDir} \cup {Dir(F) : F \in SUBSET Names},
     master : {NoDir} \cup {Dir(F) : F \in SUBSET Names}]

\* The lists of records Aeon may hold: each transaction once, in any order,
\* its number under any of the keys.
Orders ==
    {s \in [1..MaxTransactions -> TransactionNumbers] :
        \A i, j \in 1..MaxTransactions : s[i] = s[j] => i = j}
RequestLists ==
    {[i \in 1..MaxTransactions |-> [num |-> s[i], key |-> k[i]]] :
        s \in Orders, k \in [1..MaxTransactions -> Keys]}
SingleRequests ==
    {<<[num |-> t, key |-> k]>> : t \in TransactionNumbers,
                                  k \in {"TransactionNumber", "transactionnumber"}}

InitLocals ==
    /\ pc = [p \in Procs |-> "start"]
    /\ run = [p \in Procs |-> 1]
    /\ transactions_to_process = [p \in Procs |-> <<>>]
    /\ idx = [p \in Procs |-> 0]
    /\ transaction_number = [p \in Procs |-> 0]
    /\ source_files = [p \in Procs |-> <<>>]
    /\ page = [p \in Procs |-> 0]
    /\ page_text = [p \in Procs |-> NoText]
    /\ writer = [p \in Procs |-> <<>>]
    /\ calls = [p \in Procs |-> <<>>]
    /\ outcome = [p \in Procs |-> <<>>]
    /\ abandoned = {}
    /\ guard_calls = <<>>

InitShared ==
    /\ status = [t \in TransactionNumbers |-> SourceStatus]
    /\ root_dir = [t \in TransactionNumbers |-> Layout(t)]
    /\ markers = {}
    /\ bucket = <<>>
    /\ pdfs = [t \in TransactionNumbers |-> <<>>]

\* One invocation of the script by one process.
Init ==
    /\ procs = {1}
    /\ runs = 1
    /\ requests \in RequestLists
    /\ InitShared
    /\ InitLocals

\* ------------------------------------------------------------- history

\* `held`: for a call of set_transaction_processing, whether the marker was
\* there when it was made.
Call(p, op, ok) ==
    [i |-> idx[p], op |-> op, t |-> transaction_number[p], page |-> page[p], ok |-> ok,
     held |-> op = "set_transaction_processing" /\ transaction_number[p] \in markers]

Log(p, op, ok) == calls' = [calls EXCEPT ![p] = Append(@, Call(p, op, ok))]

\* --------------------------------------------- handle_new_transactions

\* The except clauses of the loop body: the error is logged, nothing is
\* undone, and the loop goes on with the next record.
ExceptAborts(p, exc) ==
    /\ pc' = [pc EXCEPT ![p] = "raised"]
    /\ idx' = [idx EXCEPT ![p] = @ + 1]
    /\ outcome' = [outcome EXCEPT ![p] = Append(@, exc)]
    /\ UNCHANGED <<status, markers, bucket, pdfs>>
ExceptRollsBack(p, exc) ==
    /\ pc' = [pc EXCEPT ![p] = "for"]
    /\ idx' = [idx EXCEPT ![p] = @ + 1]
    /\ outcome' = [outcome EXCEPT ![p] = Append(@, exc)]
    /\ bucket' = [k \in DOMAIN bucket \ {source_files[p][j].name : j \in 1..Len(source_files[p])}
                    |-> bucket[k]]
    /\ UNCHANGED <<status, markers, pdfs>>
ExceptCleansUp(p, exc) ==
    /\ pc' = [pc EXCEPT ![p] = "for"]
    /\ idx' = [idx EXCEPT ![p] = @ + 1]
    /\ outcome' = [outcome EXCEPT ![p] = Append(@, exc)]
    /\ markers' = markers \ {transaction_number[p]}
    /\ UNCHANGED <<status, bucket, pdfs>>
Except(p, exc) ==
    /\ pc' = [pc EXCEPT ![p] = "for"]
    /\ idx' = [idx EXCEPT ![p] = @ + 1]
    /\ outcome' = [outcome EXCEPT ![p] = Append(@, exc)]
    /\ UNCHANGED <<status, markers, bucket, pdfs>>

\* The records of `requests` in status `status_code`, as Aeon serialises them.
InStatus(status_code) ==
    LET matching == SelectSeq(requests, LAMBDA r : status[r.num] = status_code)
    IN  [i \in 1..Len(matching) |->
            [k \in {matching[i].key} |-> matching[i].num]]

\* get_transactions_in_status, with a failure taken as an empty list.
get_transactions_in_status_or_nothing(p) ==
    /\ pc[p] = "start"
    /\ \E ok \in BOOLEAN :
        /\ transactions_to_process' = [transactions_to_process EXCEPT ![p] =
                IF ok THEN InStatus(SourceStatus) ELSE <<>>]
        /\ idx' = [idx EXCEPT ![p] = 1]
        /\ pc' = [pc EXCEPT ![p] = "for"]
    /\ UNCHANGED <<procs, runs, shared, run, transaction_number, source_files, page,
                   page_text, writer, calls, outcome, abandoned, guard_calls>>

\* Line 41: get_transactions_in_status; a failure leaves handle_new_transactions.
get_transactions_in_status(p) ==
    /\ pc[p] = "start"
    /\ \E ok \in BOOLEAN :
        IF ok
        THEN /\ transactions_to_process' = [transactions_to_process EXCEPT ![p] = InStatus(SourceStatus)]
             /\ idx' = [idx EXCEPT ![p] = 1]
             /\ pc' = [pc EXCEPT ![p] = "for"]
        ELSE /\ pc' = [pc EXCEPT ![p] = "raised"]
             /\ UNCHANGED <<transactions_to_process, idx>>
    /\ UNCHANGED <<procs, runs, shared, run, transaction_number, source_files, page,
                   page_text, writer, calls, outcome, abandoned, guard_calls>>

\* The record the for loop takes at position i.
RecordAtReversed(batch, i) == batch[Len(batch) + 1 - i]
RecordAt(batch, i) == batch[i]

\* Lines 42-45: the loop takes the next record and looks its number up.
for_next(p) ==
    /\ pc[p] = "for"
    /\ idx[p] <= Len(transactions_to_process[p])
    /\ LET d == lowercased(RecordAt(transactions_to_process[p], idx[p]))
       IN  IF "transactionnumber" \in DOMAIN d
           THEN /\ transaction_number' = [transaction_number EXCEPT ![p] = d["transactionnumber"]]
                /\ pc' = [pc EXCEPT ![p] = "set_transaction_processing"]
                /\ calls' = [calls EXCEPT ![p] = Append(@,
                        [Call(p, "lookup", TRUE) EXCEPT !.t = d["transactionnumber"]])]
                /\ UNCHANGED <<idx, outcome, shared>>
           ELSE /\ Log(p, "lookup", FALSE)
                /\ Except(p, "Exception")
                /\ UNCHANGED <<transaction_number, requests, root_dir>>
    /\ UNCHANGED <<procs, runs, run, transactions_to_process, source_files, page,
                   page_text, writer, abandoned, guard_calls>>

\* Line 42: the list is exhausted and handle_new_transactions returns.
for_exhausted(p) ==
    /\ pc[p] = "for"
    /\ idx[p] > Len(transactions_to_process[p])
    /\ pc' = [pc EXCEPT ![p] = "returned"]
    /\ UNCHANGED <<procs, runs, shared, run, locals, calls, outcome, abandoned, guard_calls>>

\* Lines 46, 56-60.
set_transaction_processing(p) ==
    /\ pc[p] = "set_transaction_processing"
    /\ \E io_ok \in BOOLEAN :
        LET r == SetTransactionProcessing(markers, transaction_number[p])
        IN  IF ~io_ok
            THEN Log(p, "set_transaction_processing", FALSE) /\ Except(p, "Exception")
            ELSE IF r.exc = "AlreadyProcessingError"
            THEN Log(p, "set_transaction_processing", FALSE)
                 /\ Except(p, "AlreadyProcessingError")
            ELSE /\ Log(p, "set_transaction_processing", TRUE)
                 /\ markers' = r.files
                 /\ pc' = [pc EXCEPT ![p] = "create_pdf"]
                 /\ UNCHANGED <<idx, outcome, status, bucket, pdfs>>
    /\ UNCHANGED <<procs, runs, requests, root_dir, run, transactions_to_process,
                   transaction_number, source_files, page, page_text, writer,
                   abandoned, guard_calls>>

\* The statement create_pdf runs once the pages are collected.
AfterCollectSkipsEmpty(files) ==
    IF files = <<>> THEN "update_transaction_status" ELSE "extract_text"
AfterCollect(files) == IF files = <<>> THEN "write" ELSE "extract_text"

\* Lines 47, 66-70: the output directory, the writer, the pages.
create_pdf(p) ==
    /\ pc[p] = "create_pdf"
    /\ \E ok \in BOOLEAN :
        LET files == collect_tiff_filepaths(root_dir[transaction_number[p]])
        IN  IF ok
            THEN /\ Log(p, "create_pdf", TRUE)
                 /\ writer' = [writer EXCEPT ![p] = <<>>]
                 /\ source_files' = [source_files EXCEPT ![p] = files]
                 /\ page' = [page EXCEPT ![p] = 1]
                 /\ pc' = [pc EXCEPT ![p] = AfterCollect(files)]
                 /\ UNCHANGED <<idx, outcome, status, markers, bucket, pdfs>>
            ELSE /\ Log(p, "create_pdf", FALSE)
                 /\ Except(p, "Exception")
                 /\ UNCHANGED <<writer, source_files, page>>
    /\ UNCHANGED <<procs, runs, requests, root_dir, run, transactions_to_process,
                   transaction_number, page_text, abandoned, guard_calls>>

\* Lines 72, 95-108.
extract_text(p) ==
    /\ pc[p] = "extract_text"
    /\ \E ok \in BOOLEAN :
        IF ok
        THEN /\ Log(p, "extract_text", TRUE)
             /\ page_text' = [page_text EXCEPT ![p] = detect_document_text(source_files[p][page[p]])]
             /\ pc' = [pc EXCEPT ![p] = "upload_page_text"]
             /\ UNCHANGED <<idx, outcome, status, markers, bucket, pdfs>>
        ELSE /\ Log(p, "extract_text", FALSE)
             /\ Except(p, "Exception")
             /\ UNCHANGED page_text
    /\ UNCHANGED <<procs, runs, requests, root_dir, run, transactions_to_process,
                   transaction_number, source_files, page, writer, abandoned, guard_calls>>

\* S3 upload_file: the object under `key` is created or replaced.
Upload(objects, key, body) ==
    [k \in DOMAIN objects \cup {key} |-> IF k = key THEN body ELSE objects[k]]

\* Lines 73, 111-124: the object key is the page's file name.
upload_page_text(p) ==
    /\ pc[p] = "upload_page_text"
    /\ \E ok \in BOOLEAN :
        IF ok
        THEN /\ Log(p, "upload_page_text", TRUE)
             /\ bucket' = Upload(bucket, source_files[p][page[p]].name, page_text[p])
             /\ pc' = [pc EXCEPT ![p] = "append"]
             /\ UNCHANGED <<idx, outcome, status, markers, pdfs>>
        ELSE /\ Log(p, "upload_page_text", FALSE)
             /\ Except(p, "Exception")
    /\ UNCHANGED <<procs, runs, requests, root_dir, run, transactions_to_process,
                   transaction_number, source_files, page, page_text, writer,
                   abandoned, guard_calls>>

\* Line 74: writer.append(page_path, page_text), then the loop of line 71.
append(p) ==
    /\ pc[p] = "append"
    /\ \E ok \in BOOLEAN :
        IF ok
        THEN /\ Log(p, "append", TRUE)
             /\ writer' = [writer EXCEPT ![p] = Append(@, <<source_files[p][page[p]], page_text[p]>>)]
             /\ page' = [page EXCEPT ![p] = @ + 1]
             /\ pc' = [pc EXCEPT ![p] = IF page[p] < Len(source_files[p])
                                        THEN "extract_text" ELSE "write"]
             /\ UNCHANGED <<idx, outcome, status, markers, bucket, pdfs>>
        ELSE /\ Log(p, "append", FALSE)
             /\ Except(p, "Exception")
             /\ UNCHANGED <<writer, page>>
    /\ UNCHANGED <<procs, runs, requests, root_dir, run, transactions_to_process,
                   transaction_number, source_files, page_text, abandoned, guard_calls>>

\* write, with the status update left out: the marker is removed next.
write_then_finished(p) ==
    /\ pc[p] = "write"
    /\ \E ok \in BOOLEAN :
        IF ok
        THEN /\ Log(p, "write", TRUE)
             /\ pdfs' = [pdfs EXCEPT ![transaction_number[p]] = Append(@, writer[p])]
             /\ pc' = [pc EXCEPT ![p] = "set_transaction_finished"]
             /\ UNCHANGED <<idx, outcome, status, markers, bucket>>
        ELSE /\ Log(p, "write", FALSE)
             /\ Except(p, "Exception")
    /\ UNCHANGED <<procs, runs, requests, root_dir, run, locals, abandoned, guard_calls>>

\* Lines 76-77 and 48: writer.write(); optimize_pdf does nothing.
write(p) ==
    /\ pc[p] = "write"
    /\ \E ok \in BOOLEAN :
        IF ok
        THEN /\ Log(p, "write", TRUE)
             /\ pdfs' = [pdfs EXCEPT ![transaction_number[p]] = Append(@, writer[p])]
             /\ pc' = [pc EXCEPT ![p] = "update_transaction_status"]
             /\ UNCHANGED <<idx, outcome, status, markers, bucket>>
        ELSE /\ Log(p, "write", FALSE)
             /\ Except(p, "Exception")
    /\ UNCHANGED <<procs, runs, requests, root_dir, run, locals, abandoned, guard_calls>>

\* Lines 49, 150-158.
update_transaction_status(p) ==
    /\ pc[p] = "update_transaction_status"
    /\ \E ok \in BOOLEAN :
        IF ok
        THEN /\ Log(p, "update_transaction_status", TRUE)
             /\ status' = [status EXCEPT ![transaction_number[p]] = DestinationStatus]
             /\ pc' = [pc EXCEPT ![p] = "set_transaction_finished"]
             /\ UNCHANGED <<idx, outcome, markers, bucket, pdfs>>
        ELSE /\ Log(p, "update_transaction_status", FALSE)
             /\ Except(p, "Exception")
    /\ UNCHANGED <<procs, runs, requests, root_dir, run, transactions_to_process,
                   transaction_number, source_files, page, page_text, writer,
                   abandoned, guard_calls>>

\* Lines 50, 62-63; the loop body ends and the loop goes on.
set_transaction_finished(p) ==
    /\ pc[p] = "set_transaction_finished"
    /\ \E io_ok \in BOOLEAN :
        LET r == SetTransactionFinished(markers, transaction_number[p])
        IN  IF io_ok /\ r.exc = "none"
            THEN /\ Log(p, "set_transaction_finished", TRUE)
                 /\ markers' = r.files
                 /\ pc' = [pc EXCEPT ![p] = "for"]
                 /\ idx' = [idx EXCEPT ![p] = @ + 1]
                 /\ outcome' = [outcome EXCEPT ![p] = Append(@, "finished")]
                 /\ UNCHANGED <<status, bucket, pdfs>>
            ELSE /\ Log(p, "set_transaction_finished", FALSE)
                 /\ Except(p, "Exception")
    /\ UNCHANGED <<procs, runs, requests, root_dir, run, transactions_to_process,
                   transaction_number, source_files, page, page_text, writer,
                   abandoned, guard_calls>>

\* Lines 161-162: the scheduler starts the script again; nothing of the
\* previous invocation survives in memory.
LeftGuarded(p) ==
    {calls[p][k].t : k \in {j \in 1..Len(calls[p]) :
        /\ calls[p][j].op = "set_transaction_processing"
        /\ calls[p][j].ok
        /\ outcome[p][calls[p][j].i] = "Exception"}}

main(p) ==
    /\ pc[p] \in {"returned", "raised"}
    /\ run[p] < runs
    /\ run' = [run EXCEPT ![p] = @ + 1]
    /\ pc' = [pc EXCEPT ![p] = "start"]
    /\ transactions_to_process' = [transactions_to_process EXCEPT ![p] = <<>>]
    /\ idx' = [idx EXCEPT ![p] = 0]
    /\ transaction_number' = [transaction_number EXCEPT ![p] = 0]
    /\ source_files' = [source_files EXCEPT ![p] = <<>>]
    /\ page' = [page EXCEPT ![p] = 0]
    /\ page_text' = [page_text EXCEPT ![p] = NoText]
    /\ writer' = [writer EXCEPT ![p] = <<>>]
    /\ calls' = [calls EXCEPT ![p] = <<>>]
    /\ outcome' = [outcome EXCEPT ![p] = <<>>]
    /\ abandoned' = abandoned \cup LeftGuarded(p)
    /\ UNCHANGED <<procs, runs, shared, guard_calls>>

Next ==
    \/ \E p \in procs : get_transactions_in_status(p)
    \/ \E p \in procs : for_next(p)
    \/ \E p \in procs : for_exhausted(p)
    \/ \E p \in procs : set_transaction_processing(p)
    \/ \E p \in procs : create_pdf(p)
    \/ \E p \in procs : extract_text(p)
    \/ \E p \in procs : upload_page_text(p)
    \/ \E p \in procs : append(p)
    \/ \E p \in procs : write(p)
    \/ \E p \in procs : update_transaction_status(p)
    \/ \E p \in procs : set_transaction_finished(p)

Spec == Init /\ [][Next]_vars

\* The script invoked again and again by one scheduler (cron), one
\* invocation at a time.
InitRuns ==
    /\ procs = {1}
    /\ runs = MaxRuns
    /\ requests \in SingleRequests
    /\ InitShared
    /\ InitLocals

NextRuns == Next \/ \E p \in procs : main(p)

SpecRuns == InitRuns /\ [][NextRuns]_vars

\* Two processes running the script at the same time on the same marker
\* directory, root directory, bucket and Aeon.
InitConcurrent ==
    /\ procs = Procs
    /\ runs = 1
    /\ requests \in SingleRequests
    /\ InitShared
    /\ InitLocals

SpecConcurrent == InitConcurrent /\ [][Next]_vars

\* ------------------------------------------- the guard methods, directly

\* A caller exercising set_transaction_processing on its own.
call_set_transaction_processing(t) ==
    /\ Len(guard_calls) < MaxGuardCalls
    /\ LET r == SetTransactionProcessing(markers, t)
       IN  /\ markers' = r.files
           /\ guard_calls' = Append(guard_calls,
                [op |-> "set_transaction_processing", t |-> t, exc |-> r.exc])
    /\ UNCHANGED <<procs, runs, requests, status, root_dir, bucket, pdfs, pc, run,
                   locals, calls, outcome, abandoned>>

\* A caller exercising set_transaction_finished on its own.
call_set_transaction_finished(t) ==
    /\ Len(guard_calls) < MaxGuardCalls
    /\ LET r == SetTransactionFinished(markers, t)
       IN  /\ markers' = r.files
           /\ guard_calls' = Append(guard_calls,
                [op |-> "set_transaction_finished", t |-> t, exc |-> r.exc])
    /\ UNCHANGED <<procs, runs, requests, status, root_dir, bucket, pdfs, pc, run,
                   locals, calls, outcome, abandoned>>

InitGuard ==
    /\ procs = {}
    /\ runs = 0
    /\ requests = <<>>
    /\ InitShared
    /\ InitLocals

NextGuard ==
    \/ \E t \in TransactionNumbers : call_set_transaction_processing(t)
    \/ \E t \in TransactionNumbers : call_set_transaction_finished(t)

SpecGuard == InitGuard /\ [][NextGuard]_vars

\* ------------------------------------ collect_tiff_filepaths, directly

\* A caller applying collect_tiff_filepaths to a root directory.
call_collect_tiff_filepaths(p) ==
    /\ pc[p] = "collect_tiff_filepaths"
    /\ source_files' = [source_files EXCEPT ![p] = collect_tiff_filepaths(root_dir[transaction_number[p]])]
    /\ pc' = [pc EXCEPT ![p] = "collected"]
    /\ UNCHANGED <<procs, runs, shared, run, transactions_to_process, idx,
                   transaction_number, page, page_text, writer, calls, outcome,
                   abandoned, guard_calls>>

InitCollect ==
    /\ procs = {1}
    /\ runs = 0
    /\ requests = <<>>
    /\ status = [t \in TransactionNumbers |-> SourceStatus]
    /\ \E r \in Roots : root_dir = [t \in TransactionNumbers |-> IF t = 1 THEN r ELSE Layout(t)]
    /\ markers = {}
    /\ bucket = <<>>
    /\ pdfs = [t \in TransactionNumbers |-> <<>>]
    /\ pc = [p \in Procs |-> IF p = 1 THEN "collect_tiff_filepaths" ELSE "start"]
    /\ run = [p \in Procs |-> 1]
    /\ transactions_to_process = [p \in Procs |-> <<>>]
    /\ idx = [p \in Procs |-> 0]
    /\ transaction_number = [p \in Procs |-> 1]
    /\ source_files = [p \in Procs |-> <<>>]
    /\ page = [p \in Procs |-> 0]
    /\ page_text = [p \in Procs |-> NoText]
    /\ writer = [p \in Procs |-> <<>>]
    /\ calls = [p \in Procs |-> <<>>]
    /\ outcome = [p \in Procs |-> <<>>]
    /\ abandoned = {}
    /\ guard_calls = <<>>

NextCollect == \E p \in procs : call_collect_tiff_filepaths(p)

SpecCollect == InitCollect /\ [][NextCollect]_vars

\* ---------------------------------------------------------- properties

\* The calls a process made for the record at position i, in order.
CallsOf(p, i) == SelectSeq(calls[p], LAMBDA c : c.i = i)
OpsOf(p, i) == [k \in 1..Len(CallsOf(p, i)) |-> CallsOf(p, i)[k].op]
Made(p, i, op) == \E k \in 1..Len(calls[p]) : calls[p][k].i = i /\ calls[p][k].op = op
Acquired(p, i) ==
    \E k \in 1..Len(calls[p]) :
        /\ calls[p][k].i = i
        /\ calls[p][k].op = "set_transaction_processing"
        /\ calls[p][k].ok
\* The call on which the record at position i failed.
FailedIn(p, i, ops) ==
    \E k \in 1..Len(calls[p]) :
        calls[p][k].i = i /\ ~calls[p][k].ok /\ calls[p][k].op \in ops
InCreatePdf == {"create_pdf", "extract_text", "upload_page_text", "append", "write"}
\* The record whose processing has just ended, the loop being back at line 42.
JustEnded(p, i) == pc[p] = "for" /\ i = Len(outcome[p]) /\ i >= 1
NumberOf(transaction) == lowercased(transaction)["transactionnumber"]
\* The source images of a transaction, read off its directories.
SourceImages(t) ==
    LET d == IF root_dir[t]["master_edited"].is_dir THEN "master_edited" ELSE "master"
    IN  {[dir |-> d, name |-> n] : n \in {m \in root_dir[t][d].files : MatchesTiff(m)}}
InPipeline(p) ==
    pc[p] \in {"create_pdf", "extract_text", "upload_page_text", "append", "write",
               "update_transaction_status", "set_transaction_finished"}

\* C1: when set_transaction_processing is called twice for the same
\* transaction number with no set_transaction_finished in between, the second
\* call fails with AlreadyProcessingError and the marker is there afterwards.
C1_ExclusiveAcquisition ==
    \A j, k \in 1..Len(guard_calls) :
        ( /\ j < k
          /\ guard_calls[j].op = "set_transaction_processing"
          /\ guard_calls[j].exc = "none"
          /\ guard_calls[k].op = "set_transaction_processing"
          /\ guard_calls[k].t = guard_calls[j].t
          /\ \A m \in (j + 1)..(k - 1) :
                ~(guard_calls[m].op = "set_transaction_finished"
                  /\ guard_calls[m].t = guard_calls[j].t) )
        => /\ guard_calls[k].exc = "AlreadyProcessingError"
           /\ (k = Len(guard_calls) => guard_calls[k].t \in markers)

\* C2: no failure in a record's processing leaves handle_new_transactions:
\* once the list is fetched the invocation ends only by returning, with
\* every fetched record attempted exactly once, and at no time has a record
\* been attempted twice.
C2_BatchNeverAborted ==
    \A p \in procs :
        /\ pc[p] = "raised" => calls[p] = <<>> /\ outcome[p] = <<>>
        /\ \A i \in 1..Len(transactions_to_process[p]) :
            /\ Cardinality({k \in 1..Len(calls[p]) :
                    calls[p][k].i = i /\ calls[p][k].op = "lookup"}) <= 1
            /\ pc[p] = "returned" => Made(p, i, "lookup")
        /\ pc[p] = "returned" => Len(outcome[p]) = Len(transactions_to_process[p])

\* C2's case: the first record failed and the second was processed to the end.
C2_Witness ==
    \E p \in procs :
        /\ pc[p] = "returned"
        /\ Len(outcome[p]) >= 2
        /\ outcome[p][1] = "Exception"
        /\ Acquired(p, 1)
        /\ outcome[p][2] = "finished"

\* C3 as stated: whenever a record's processing failed after its guard was
\* acquired, at the end of that record's processing the marker is present and
\* update_transaction_status has not been called for it, and the loop is at
\* the next record.
C3_AnyFailureAfterGuard ==
    \A p \in procs : \A i \in 1..Len(outcome[p]) :
        (JustEnded(p, i) /\ Acquired(p, i) /\ outcome[p][i] = "Exception")
        => /\ CallsOf(p, i)[2].t \in markers
           /\ ~Made(p, i, "update_transaction_status")
           /\ idx[p] = i + 1

\* C3, amended: whenever a record's processing failed inside create_pdf
\* (output directory, writer, extraction, upload, append, write), hence after
\* its guard was acquired and before update_transaction_status, at the end of
\* that record's processing the marker is present, update_transaction_status
\* has not been called for it, and the loop is at the next record.
C3_FailureInCreatePdf ==
    \A p \in procs : \A i \in 1..Len(outcome[p]) :
        (JustEnded(p, i) /\ Acquired(p, i) /\ FailedIn(p, i, InCreatePdf))
        => /\ outcome[p][i] = "Exception"
           /\ CallsOf(p, i)[2].t \in markers
           /\ ~Made(p, i, "update_transaction_status")
           /\ ~Made(p, i, "set_transaction_finished")
           /\ idx[p] = i + 1

\* C3's case: text extraction failed on the third page of the first record,
\* and a second record is waiting.
C3_Witness ==
    \E p \in procs :
        /\ JustEnded(p, 1)
        /\ Acquired(p, 1)
        /\ \E k \in 1..Len(calls[p]) :
            calls[p][k].op = "extract_text" /\ ~calls[p][k].ok /\ calls[p][k].page = 3
        /\ Len(transactions_to_process[p]) >= 2

\* C4: two processes are never both between a successful guard acquisition
\* and the end of the record for the same transaction number.
C4_OneProcessPerTransaction ==
    \A p, q \in procs :
        (p # q /\ InPipeline(p) /\ InPipeline(q))
        => transaction_number[p] # transaction_number[q]

C6_StuckAcrossRuns ==
    \A p \in procs : \A k \in 1..Len(calls[p]) :
        (calls[p][k].t \in abandoned /\ calls[p][k].op # "lookup")
        => /\ calls[p][k].op = "set_transaction_processing"
           /\ ~calls[p][k].ok

\* C7: the calls of an invocation are grouped by record, in the order of the
\* fetched list: a call for record i is never followed by a call for an
\* earlier record, a call for record i is made only once every record before
\* it has ended, and the record processed at position i is the i-th fetched.
C7_OneRecordAfterAnother ==
    \A p \in procs :
        /\ \A k, m \in 1..Len(calls[p]) : k < m => calls[p][k].i <= calls[p][m].i
        /\ \A k \in 1..Len(calls[p]) :
            /\ calls[p][k].i \in 1..Len(transactions_to_process[p])
            /\ calls[p][k].i <= Len(outcome[p]) + 1
            /\ (calls[p][k].op # "lookup" \/ calls[p][k].ok)
               => calls[p][k].t = NumberOf(transactions_to_process[p][calls[p][k].i])
        /\ InPipeline(p) \/ pc[p] = "set_transaction_processing"
           => idx[p] = Len(outcome[p]) + 1

\* C7's case: the first record went through all its steps, and the second
\* record's guard is being requested.
C7_Witness ==
    \E p \in procs :
        /\ Made(p, 1, "set_transaction_finished")
        /\ Made(p, 1, "extract_text")
        /\ Made(p, 2, "set_transaction_processing")

\* C8: a document that was written holds exactly one (page, text) pair per
\* source image of its transaction, in ascending file name order, each page
\* with the text extracted from that page, and was written once.
C8_PagesInFilenameOrder ==
    \A t \in TransactionNumbers :
        pdfs[t] # <<>>
        => /\ Len(pdfs[t]) = 1
           /\ LET doc == pdfs[t][1]
              IN  /\ Len(doc) = Cardinality(SourceImages(t))
                  /\ {doc[j][1] : j \in 1..Len(doc)} = SourceImages(t)
                  /\ \A j \in 1..(Len(doc) - 1) : StrLess(doc[j][1].name, doc[j + 1][1].name)
                  /\ \A j \in 1..Len(doc) : doc[j][2] = detect_document_text(doc[j][1])

\* C8's case: the document of a transaction with three source images has been
\* written by a record that finished.
C8_Witness ==
    \E p \in procs : \E i \in 1..Len(outcome[p]) :
        /\ outcome[p][i] = "finished"
        /\ Cardinality(SourceImages(CallsOf(p, i)[1].t)) = 3
        /\ Len(pdfs[CallsOf(p, i)[1].t][1]) = 3

\* C9: for a transaction without source images nothing is extracted, uploaded
\* or appended; create_pdf goes straight to the write, and when no call of
\* the record raises, the record ends as any successful one: an (empty)
\* document written once, the status advanced, the marker removed.
C9_ZeroImages ==
    \A p \in procs : \A i \in 1..Len(transactions_to_process[p]) :
        (Made(p, i, "create_pdf") /\ SourceImages(CallsOf(p, i)[2].t) = {})
        => /\ \A op \in {"extract_text", "upload_page_text", "append"} : ~Made(p, i, op)
           /\ ( /\ i <= Len(outcome[p])
                /\ \A k \in 1..Len(CallsOf(p, i)) : CallsOf(p, i)[k].ok )
              => /\ outcome[p][i] = "finished"
                 /\ OpsOf(p, i) = <<"lookup", "set_transaction_processing", "create_pdf",
                                    "write", "update_transaction_status",
                                    "set_transaction_finished">>
                 /\ pdfs[CallsOf(p, i)[2].t] = << <<>> >>
                 /\ status[CallsOf(p, i)[2].t] = DestinationStatus
                 /\ CallsOf(p, i)[2].t \notin markers

\* C9's case: a record of a transaction without source images has finished.
C9_Witness ==
    \E p \in procs : \E i \in 1..Len(outcome[p]) :
        /\ outcome[p][i] = "finished"
        /\ SourceImages(CallsOf(p, i)[1].t) = {}

\* C10: when master_edited is a directory holding matching files, the result
\* is exactly those files and none of master's; a file of master is returned
\* only when master_edited is not a directory.
C10_EditedPreferred ==
    \A p \in procs :
        pc[p] = "collected"
        => LET root == root_dir[transaction_number[p]]
               result == {source_files[p][j] : j \in 1..Len(source_files[p])}
               edited == {n \in root["master_edited"].files : MatchesTiff(n)}
           IN  /\ (root["master_edited"].is_dir /\ edited # {})
                  => /\ result = {[dir |-> "master_edited", name |-> n] : n \in edited}
                     /\ Len(source_files[p]) = Cardinality(edited)
               /\ (\E f \in result : f.dir = "master") => ~root["master_edited"].is_dir

\* C10's case: both directories hold matching files and the call has returned.
C10_Witness ==
    \E p \in procs :
        /\ pc[p] = "collected"
        /\ \E n \in root_dir[transaction_number[p]]["master_edited"].files : MatchesTiff(n)
        /\ \E n \in root_dir[transaction_number[p]]["master"].files : MatchesTiff(n)
        /\ Len(source_files[p]) >= 2


\* A call made for record i before position k of the log, which returned.
Returned(p, i, op, k) ==
    \E j \in 1..(k - 1) :
        calls[p][j].i = i /\ calls[p][j].op = op /\ calls[p][j].ok

\* C11: within a record each call is made only after the previous one
\* returned; update_transaction_status is called only after the document
\* write returned, and set_transaction_finished only after
\* update_transaction_status returned.  Hence a marker the program removed
\* means the status update was issued, and an advanced status means the
\* document was written.
C11_StepsInOrder ==
    \A p \in procs :
        /\ \A k \in 1..Len(calls[p]) :
            /\ (k > 1 /\ calls[p][k - 1].i = calls[p][k].i) => calls[p][k - 1].ok
            /\ calls[p][k].op = "update_transaction_status"
               => Returned(p, calls[p][k].i, "write", k)
            /\ calls[p][k].op = "set_transaction_finished"
               => Returned(p, calls[p][k].i, "update_transaction_status", k)
            /\ (calls[p][k].op = "set_transaction_finished" /\ calls[p][k].ok)
               => status[calls[p][k].t] = DestinationStatus
        /\ \A t \in TransactionNumbers :
            status[t] = DestinationStatus => pdfs[t] # <<>>

\* C11's case: a record's marker has been removed by set_transaction_finished.
C11_Witness ==
    \E p \in procs : \E k \in 1..Len(calls[p]) :
        /\ calls[p][k].op = "set_transaction_finished"
        /\ calls[p][k].ok
        /\ calls[p][k].t \notin markers


\* The calls that do a transaction's work.
Work == {"extract_text", "upload_page_text", "append", "write", "update_transaction_status"}

\* C12: a process makes a call of a transaction's work only while it is
\* between its own successful set_transaction_processing and its
\* set_transaction_finished for that record, and only while the
\* transaction's marker is there.
C12_WorkUnderGuard ==
    [][\A p \in procs :
        (pc[p] \in Work /\ pc'[p] # pc[p])
        => /\ Acquired(p, idx[p])
           /\ ~Made(p, idx[p], "set_transaction_finished")
           /\ transaction_number[p] \in markers]_vars


\* The pages for which record i made the call `op` and it returned.
PagesDone(p, i, op) ==
    {calls[p][j].page : j \in {m \in 1..Len(calls[p]) :
        calls[p][m].i = i /\ calls[p][m].op = op /\ calls[p][m].ok}}

\* C13: in create_pdf a page is extracted, then uploaded, then appended, and
\* the document is written only after the last page was appended.  When
\* extract_text or upload_page_text raises on page k, exactly pages 1..k-1
\* have been uploaded and appended, their texts are still in the bucket when
\* the record's processing ends, and the document write is not called.
C13_PartialUploadsStay ==
    \A p \in procs : \A k \in 1..Len(calls[p]) :
        LET c == calls[p][k]
            before == calls[p][k - 1]
            follows(op, pg) == /\ k > 1
                               /\ before.i = c.i /\ before.op = op /\ before.ok
                               /\ (op # "create_pdf" => before.page = pg)
        IN  /\ c.op = "extract_text"
               => IF c.page = 1 THEN follows("create_pdf", 0)
                                ELSE follows("append", c.page - 1)
            /\ c.op = "upload_page_text" => follows("extract_text", c.page)
            /\ c.op = "append" => follows("upload_page_text", c.page)
            /\ c.op = "write"
               => IF SourceImages(c.t) = {} THEN follows("create_pdf", 0)
                  ELSE follows("append", Cardinality(SourceImages(c.t)))
            /\ (c.op \in {"extract_text", "upload_page_text"} /\ ~c.ok)
               => /\ PagesDone(p, c.i, "upload_page_text") = 1..(c.page - 1)
                  /\ PagesDone(p, c.i, "append") = 1..(c.page - 1)
                  /\ ~Made(p, c.i, "write")
                  /\ pdfs[c.t] = <<>>
                  /\ JustEnded(p, c.i)
                     => \A j \in 1..(c.page - 1) :
                            /\ source_files[p][j].name \in DOMAIN bucket
                            /\ bucket[source_files[p][j].name]
                                = detect_document_text(source_files[p][j])

\* C13's case: the upload of the third page failed, the record has ended.
C13_Witness ==
    \E p \in procs : \E k \in 1..Len(calls[p]) :
        /\ calls[p][k].op = "upload_page_text"
        /\ ~calls[p][k].ok
        /\ calls[p][k].page = 3
        /\ JustEnded(p, calls[p][k].i)
        /\ Cardinality(DOMAIN bucket) = 2


\* Nothing has been done by process p in this invocation.
NothingDone(p) ==
    /\ calls[p] = <<>>
    /\ outcome[p] = <<>>
    /\ transactions_to_process[p] = <<>>

\* C14: the fetch is the first step of an invocation and is made once: it
\* either hands the loop the records in the source status or raises out of
\* handle_new_transactions.  In the second case the invocation is over: no
\* record is processed (no marker, upload, document or status change comes
\* from it) and the fetch is not made again.
C14_FetchFailurePropagates ==
    /\ [][\A p \in procs :
            /\ (pc[p] = "start" /\ pc'[p] # "start")
               => \/ /\ pc'[p] = "for"
                     /\ transactions_to_process'[p] = InStatus(SourceStatus)
                     /\ idx'[p] = 1
                  \/ /\ pc'[p] = "raised"
                     /\ NothingDone(p)'
                     /\ UNCHANGED shared
            /\ pc[p] # "start" => pc'[p] # "start"
            /\ pc[p] = "raised" => pc'[p] = "raised"]_vars
    /\ [](\A p \in procs :
            pc[p] = "raised"
            => /\ NothingDone(p)
               /\ markers = {}
               /\ bucket = <<>>
               /\ \A t \in TransactionNumbers :
                    pdfs[t] = <<>> /\ status[t] = SourceStatus)

\* C14's case: the fetch has failed.
C14_Witness ==
    \E p \in procs : pc[p] = "raised" /\ requests # <<>>


\* C15: the directory read is decided by master_edited being a directory
\* alone: every file returned lies in master_edited when it is one and in
\* master when it is not, whatever the two hold; so when master_edited is a
\* directory without a matching file the result is empty, master's matching
\* files notwithstanding.
C15_ChoiceByIsDirOnly ==
    \A p \in procs :
        pc[p] = "collected"
        => LET root == root_dir[transaction_number[p]]
               chosen == IF root["master_edited"].is_dir THEN "master_edited" ELSE "master"
           IN  /\ \A j \in 1..Len(source_files[p]) : source_files[p][j].dir = chosen
               /\ Len(source_files[p])
                    = Cardinality({n \in root[chosen].files : MatchesTiff(n)})
               /\ ( /\ root["master_edited"].is_dir
                    /\ ~\E n \in root["master_edited"].files : MatchesTiff(n) )
                  => source_files[p] = <<>>

\* C15's case: master_edited is a directory holding only a file that does not
\* match, master holds matching files, and the call has returned nothing.
C15_Witness ==
    \E p \in procs :
        /\ pc[p] = "collected"
        /\ root_dir[transaction_number[p]]["master_edited"] = Dir({NamePdf})
        /\ \E n \in root_dir[transaction_number[p]]["master"].files : MatchesTiff(n)
        /\ source_files[p] = <<>>

====
